---- MODULE Spec2Model ----
(***************************************************************************)
(* Green-Scheduling: the simulation engine (simulation.py), the scheduling *)
(* policies (algorithm.py), the Task record (scheduler.py) and the linear  *)
(* power model (energy_monitor.py).                                        *)
(*                                                                         *)
(* Units.  The program computes in floats; the model keeps every quantity  *)
(* as an exact integer numerator over a fixed denominator:                 *)
(*   time      tick = 1/TicksPerSecond s (the 0.1 s idle increment = 1)    *)
(*   power     centiwatt (cpu_requirement is a whole percentage)           *)
(*   energy    centiwatt * tick; kWh = value / EnergyDenominator           *)
(*   CO2       energy * EMISSION_FACTOR_PERCENT; kg = value / Co2Denominator*)
(* Averages are exact fractions in lowest terms.                           *)
(***************************************************************************)
EXTENDS Integers, Sequences, FiniteSets, TLC

VARIABLES
    heap,            \* the Task objects: object reference -> Task fields
    tasks,           \* Simulator.tasks: list of references
    schedulers,      \* Simulator.schedulers: name -> policy object
    monitors,        \* Simulator.monitors: name -> readings of that run
    results,         \* Simulator.results: name -> MetricsRecord
    pc,              \* position of the (single) thread of control
    idx,             \* run_all_simulations: position in config.ALGORITHMS
    algorithm_name,  \* run_simulation_for_algorithm: argument
    monitor,         \* run_simulation_for_algorithm: local EnergyMonitor
    remaining_tasks, \* run_simulation_for_algorithm: local ready list
    current_time,    \* run_simulation_for_algorithm: local time cursor
    next_task,       \* run_simulation_for_algorithm: local selection
    returned,        \* values returned so far by run_simulation_for_algorithm
    calls,           \* calls made so far by a direct caller of the API
    best             \* main: the pair compare_algorithms returned

vars == <<heap, tasks, schedulers, monitors, results, pc, idx, algorithm_name,
          monitor, remaining_tasks, current_time, next_task, returned, calls,
          best>>

runLocals == <<algorithm_name, monitor, remaining_tasks, current_time, next_task>>

----------------------------------------------------------------------------
(* Bounds of the model                                                     *)

MaxTasks == 2
MaxCalls == 2
MantissaBits == 10

(* Program constants                                                       *)

TicksPerSecond == 10
BASE_POWER_WATTS == 5
MAX_POWER_WATTS == 15
EMISSION_FACTOR_PERCENT == 73
TIME_QUANTUM_MS == 100
SIMULATION_TIME == 60
ALGORITHMS == <<"FCFS", "SJF", "RoundRobin", "PriorityBased", "EnergyOptimized">>

None == -1

HIGH == 1
MEDIUM == 2
LOW == 3
TaskPriority == {HIGH, MEDIUM, LOW}

EnergyDenominator == 100 * TicksPerSecond * 3600 * 1000
Co2Denominator == EnergyDenominator * 100

(* The values tasks are drawn from.  The program reaches the time budget   *)
(* with many short tasks (20 tasks of up to 5 s against 60 s); the model's *)
(* batches are short, so a duration may also be as long as the budget.     *)
TaskDurations == {1 * TicksPerSecond, SIMULATION_TIME * TicksPerSecond}
TaskArrivals == {0, 1 * TicksPerSecond}
TaskCpu == {20, 50}

----------------------------------------------------------------------------
(* scheduler.py: Task                                                      *)

Task(id, d, p, a, c) ==
    [task_id |-> id, duration |-> d, priority |-> p, arrival_time |-> a,
     start_time |-> None, end_time |-> None, cpu_requirement |-> c]

get_wait_time(t) ==
    IF t.start_time # None THEN t.start_time - t.arrival_time ELSE 0

get_turnaround_time(t) ==
    IF t.end_time # None THEN t.end_time - t.arrival_time ELSE 0

\* The energy figures are Python floats, which round every result to a
\* significand of fixed width (53 bits); the model keeps MantissaBits bits, so
\* that rounding shows at its small values.  float(x) is x rounded to the
\* nearest representable value, ties to the even significand.  The times of
\* the model are exact.
Exponent[a \in Nat] ==
    IF a < 2 ^ MantissaBits THEN 0 ELSE 1 + Exponent[a \div 2]

Round[a \in Nat] ==
    LET ulp == 2 ^ Exponent[a]
        q == a \div ulp
        r == a % ulp
    IN  IF 2 * r > ulp \/ (2 * r = ulp /\ q % 2 = 1)
        THEN (q + 1) * ulp ELSE q * ulp

float(x) == IF x < 0 THEN 0 - Round[0 - x] ELSE Round[x]

get_energy_consumption(t, power_watts) == float(power_watts * t.duration)

(* energy_monitor.py                                                       *)

\* the power without the base term
calculate_power_watts_no_base(cpu_usage_percent) ==
    MAX_POWER_WATTS * cpu_usage_percent

calculate_power_watts(cpu_usage_percent) ==
    BASE_POWER_WATTS * 100
      + (MAX_POWER_WATTS - BASE_POWER_WATTS) * cpu_usage_percent

\* a reading; its timestamp is the wall clock, which nothing of the engine reads
record_reading(m, cpu_usage, memory_usage, power_watts) ==
    Append(m, [cpu_usage |-> cpu_usage, memory_usage |-> memory_usage,
               power_watts |-> power_watts])

----------------------------------------------------------------------------
(* Python built-ins the policies use, over lists of references             *)

\* tuple comparison a < b, for tuples of one length
LexLess(a, b) ==
    \E k \in 1..Len(a) :
        a[k] < b[k] /\ \A m \in 1..(k - 1) : a[m] = b[m]

\* position of the element min(list, key=key) returns: the first minimal one.
\* key maps each element of list to its key tuple.
MinIndex(list, key) ==
    CHOOSE i \in 1..Len(list) :
        /\ \A j \in 1..Len(list) : ~LexLess(key[list[j]], key[list[i]])
        /\ \A j \in 1..(i - 1) : LexLess(key[list[i]], key[list[j]])

min(list, key) == list[MinIndex(list, key)]

Elems(list) == {list[i] : i \in 1..Len(list)}

RemoveAt(list, i) == SubSeq(list, 1, i - 1) \o SubSeq(list, i + 1, Len(list))

\* sorted(list, key=key): a new list, ascending by key, equal keys in their
\* order in list (the sort is stable)
sorted(list, key) ==
    LET n == Len(list)
        Before(i, j) ==
            \/ LexLess(key[list[i]], key[list[j]])
            \/ ~LexLess(key[list[j]], key[list[i]]) /\ i < j
        Rank(i) == Cardinality({j \in 1..n : Before(j, i)}) + 1
    IN  [p \in 1..n |-> list[CHOOSE i \in 1..n : Rank(i) = p]]

\* list.pop(0) in the place of list.remove(x)
remove_first(list, x, h) == RemoveAt(list, 1)

\* list.remove(x): drops the first element equal to x (dataclass equality
\* compares the fields)
remove(list, x, h) ==
    LET i == CHOOSE k \in 1..Len(list) :
                 /\ (list[k] = x \/ h[list[k]] = h[x])
                 /\ \A j \in 1..(k - 1) : ~(list[j] = x \/ h[list[j]] = h[x])
    IN  RemoveAt(list, i)

RECURSIVE Gcd(_, _)
Gcd(a, b) == IF b = 0 THEN a ELSE Gcd(b, a % b)

Abs(x) == IF x < 0 THEN 0 - x ELSE x

\* what n / 0 gives: the exception, as a fraction that is no number
ZeroDivisionError == [num |-> 0, den |-> 0]

\* the float n / d, as a fraction in lowest terms
Divide(n, d) ==
    IF d = 0 THEN ZeroDivisionError
    ELSE LET g == Gcd(Abs(n), d) IN [num |-> n \div g, den |-> d \div g]

Zero == [num |-> 0, den |-> 1]

----------------------------------------------------------------------------
(* algorithm.py: the policies.  A policy object is a record; schedule gets *)
(* the list it is passed and the heap, and yields the value it returns     *)
(* (ret) together with the list as the call leaves it (list).              *)

SchedulingAlgorithm(name) ==
    [name |-> name, executed_tasks |-> <<>>, total_energy |-> 0,
     total_wait_time |-> 0, total_turnaround_time |-> 0]

FCFSScheduler == SchedulingAlgorithm("FCFS")
SJFScheduler == SchedulingAlgorithm("SJF")
PriorityScheduler == SchedulingAlgorithm("PriorityBased")
RoundRobinScheduler ==
    [name |-> "RoundRobin", executed_tasks |-> <<>>, total_energy |-> 0,
     total_wait_time |-> 0, total_turnaround_time |-> 0,
     time_quantum |-> TIME_QUANTUM_MS]
EnergyOptimizedScheduler == SchedulingAlgorithm("EnergyOptimized")

\* FCFS that asks for more than one task before it returns one
FCFS_schedule_off_by_one(list, h) ==
    [ret |-> IF Len(list) > 1 THEN list[1] ELSE None, list |-> list]

FCFS_schedule(list, h) ==
    [ret |-> IF list # <<>> THEN list[1] ELSE None, list |-> list]

\* SJF returning the head of the list
SJF_schedule_head(list, h) ==
    [ret |-> IF list = <<>> THEN None ELSE list[1], list |-> list]

SJF_schedule(list, h) ==
    LET key == [r \in Elems(list) |-> <<h[r].duration>>]
    IN  [ret |-> IF list = <<>> THEN None ELSE min(list, key), list |-> list]

\* Priority with the rank as the whole key
Priority_schedule_rank_only(list, h) ==
    LET key == [r \in Elems(list) |-> <<h[r].priority>>]
    IN  [ret |-> IF list = <<>> THEN None ELSE min(list, key), list |-> list]

Priority_schedule(list, h) ==
    LET key == [r \in Elems(list) |-> <<h[r].priority, h[r].arrival_time>>]
    IN  [ret |-> IF list = <<>> THEN None ELSE min(list, key), list |-> list]

\* RoundRobin taking the task at the other end of the list
RoundRobin_schedule_last(list, h) ==
    [ret |-> IF list = <<>> THEN None ELSE list[Len(list)], list |-> list]

RoundRobin_schedule(list, h) ==
    [ret |-> IF list # <<>> THEN list[1] ELSE None, list |-> list]

\* EnergyOptimized with tasks.sort(...) in the place of sorted(tasks, ...)
EnergyOptimized_schedule_in_place(list, h) ==
    LET key == [r \in Elems(list) |-> <<h[r].cpu_requirement, h[r].priority, h[r].arrival_time>>]
        sorted_tasks == sorted(list, key)
    IN  [ret |-> IF list = <<>> THEN None ELSE sorted_tasks[1],
         list |-> sorted_tasks]

\* EnergyOptimized with the key of TaskQueue.get_next_task: cpu_requirement only
EnergyOptimized_schedule_cpu_only(list, h) ==
    LET key == [r \in Elems(list) |-> <<h[r].cpu_requirement>>]
        sorted_tasks == sorted(list, key)
    IN  [ret |-> IF list = <<>> THEN None ELSE sorted_tasks[1], list |-> list]

EnergyOptimized_schedule(list, h) ==
    LET key == [r \in Elems(list) |-> <<h[r].cpu_requirement, h[r].priority, h[r].arrival_time>>]
        sorted_tasks == sorted(list, key)
    IN  [ret |-> IF list = <<>> THEN None ELSE sorted_tasks[1], list |-> list]

\* scheduler.schedule(list): dispatch on the class of the policy object
schedule(s, list, h) ==
    CASE s.name = "FCFS" -> FCFS_schedule(list, h)
      [] s.name = "SJF" -> SJF_schedule(list, h)
      [] s.name = "PriorityBased" -> Priority_schedule(list, h)
      [] s.name = "RoundRobin" -> RoundRobin_schedule(list, h)
      [] s.name = "EnergyOptimized" -> EnergyOptimized_schedule(list, h)

\* end_time without the duration
executed_no_duration(t, now) ==
    [t EXCEPT !.start_time = now, !.end_time = now]

\* start_time and end_time written only while they are unset
executed_once(t, now) ==
    IF t.start_time # None THEN t
    ELSE [t EXCEPT !.start_time = now, !.end_time = now + t.duration]

\* execute_task(task, current_time, power_watts): the Task object after the
\* call (executed), and the policy object after the call (execute_task)
executed(t, now) ==
    [t EXCEPT !.start_time = now, !.end_time = now + t.duration]

execute_task(s, r, now, power_watts, h) ==
    LET t == executed(h[r], now)
    IN  [s EXCEPT !.executed_tasks = Append(@, r),
                  !.total_energy = float(@ + get_energy_consumption(t, power_watts)),
                  !.total_wait_time = @ + get_wait_time(t),
                  !.total_turnaround_time = @ + get_turnaround_time(t)]

\* the average without the test for an empty executed_tasks
get_average_wait_time_unguarded(s) ==
    Divide(s.total_wait_time, Len(s.executed_tasks))

get_average_wait_time(s) ==
    IF s.executed_tasks # <<>>
    THEN Divide(s.total_wait_time, Len(s.executed_tasks)) ELSE Zero

get_average_turnaround_time(s) ==
    IF s.executed_tasks # <<>>
    THEN Divide(s.total_turnaround_time, Len(s.executed_tasks)) ELSE Zero

get_metrics(s) ==
    [algorithm |-> s.name,
     total_energy_kwh |-> s.total_energy,
     tasks_executed |-> Len(s.executed_tasks),
     avg_wait_time |-> get_average_wait_time(s),
     avg_turnaround_time |-> get_average_turnaround_time(s),
     co2_emissions_kg |-> float(s.total_energy * EMISSION_FACTOR_PERCENT)]

----------------------------------------------------------------------------
(* simulation.py: Simulator                                                *)

Empty == [n \in {} |-> None]

\* the batches of at most MaxTasks tasks, in any order; task_id is the
\* position at creation (uuid4 in the program: unique)
Batches ==
    UNION { [1..n -> TaskDurations \X TaskPriority \X TaskArrivals \X TaskCpu] :
            n \in 0..MaxTasks }

Objects(b) == [i \in 1..Len(b) |-> Task(i, b[i][1], b[i][2], b[i][3], b[i][4])]

Refs(h) == [i \in 1..Len(h) |-> i]

\* Simulator()
Init ==
    /\ heap = <<>>
    /\ tasks = <<>>
    /\ schedulers = Empty
    /\ monitors = Empty
    /\ results = Empty
    /\ pc = "new"
    /\ idx = 0
    /\ algorithm_name = "FCFS"
    /\ monitor = <<>>
    /\ remaining_tasks = <<>>
    /\ current_time = 0
    /\ next_task = None
    /\ returned = <<>>
    /\ calls = 0
    /\ best = <<>>

\* main.py step 2: the random draws are any values of the task sets
generate_random_tasks ==
    /\ pc = "new"
    /\ \E b \in Batches :
         LET drawn == Objects(b)
             key == [r \in DOMAIN drawn |-> <<drawn[r].arrival_time>>]
             order == sorted(Refs(drawn), key)
         IN  /\ heap' = [i \in 1..Len(b) |-> drawn[order[i]]]
             /\ tasks' = Refs(drawn)
    /\ pc' = "generated"
    /\ UNCHANGED <<best, schedulers, monitors, results, idx, runLocals, returned, calls>>

initialize_schedulers ==
    [n \in {"FCFS", "SJF", "PriorityBased", "RoundRobin", "EnergyOptimized"} |->
        CASE n = "FCFS" -> FCFSScheduler
          [] n = "SJF" -> SJFScheduler
          [] n = "PriorityBased" -> PriorityScheduler
          [] n = "RoundRobin" -> RoundRobinScheduler
          [] n = "EnergyOptimized" -> EnergyOptimizedScheduler]

\* main.py step 3: run_all_simulations up to its for loop
run_all_simulations ==
    /\ pc = "generated"
    /\ schedulers' = initialize_schedulers
    /\ idx' = 1
    /\ pc' = "for"
    /\ UNCHANGED <<best, heap, tasks, monitors, results, runLocals, returned, calls>>

\* entry of run_simulation_for_algorithm(name, list): the lines before the loop
Enter(name, list) ==
    /\ algorithm_name' = name
    /\ monitor' = <<>>
    /\ remaining_tasks' = list
    /\ current_time' = 0
    /\ next_task' = None
    /\ pc' = "while"

\* for algorithm_name in config.ALGORITHMS: the call with self.tasks
RunNextAlgorithm ==
    /\ pc = "for"
    /\ idx <= Len(ALGORITHMS)
    /\ ALGORITHMS[idx] \in DOMAIN schedulers
    /\ Enter(ALGORITHMS[idx], tasks)
    /\ UNCHANGED <<best, heap, tasks, schedulers, monitors, results, idx, returned, calls>>

\* the for loop is exhausted: run_all_simulations returns self.results
RunAllReturn ==
    /\ pc = "for"
    /\ idx > Len(ALGORITHMS)
    /\ pc' = "ran"
    /\ UNCHANGED <<best, heap, tasks, schedulers, monitors, results, idx, runLocals,
                   returned, calls>>

\* a loop without the time budget
WhileCond_no_budget(list, now) ==
    list # <<>>

\* a loop that goes on when the list is empty
WhileCond_budget_only(list, now) ==
    now < SIMULATION_TIME * TicksPerSecond

\* a loop that stops with one task left
WhileCond_more_than_one(list, now) ==
    Len(list) > 1 /\ now < SIMULATION_TIME * TicksPerSecond

WhileCond(list, now) ==
    list # <<>> /\ now < SIMULATION_TIME * TicksPerSecond

\* while remaining_tasks and current_time < config.SIMULATION_TIME
WhileTest ==
    /\ pc = "while"
    /\ pc' = IF WhileCond(remaining_tasks, current_time) THEN "select" ELSE "done"
    /\ UNCHANGED <<best, heap, tasks, schedulers, monitors, results, idx, runLocals,
                   returned, calls>>

\* next_task = scheduler.schedule(remaining_tasks)
Select ==
    /\ pc = "select"
    /\ LET call == schedule(schedulers[algorithm_name], remaining_tasks, heap)
       IN  /\ next_task' = call.ret
           /\ remaining_tasks' = call.list
    /\ pc' = "execute"
    /\ UNCHANGED <<best, heap, tasks, schedulers, monitors, results, idx,
                   algorithm_name, monitor, current_time, returned, calls>>

\* the body of the loop after the selection: execute and remove, or idle
Execute ==
    /\ pc = "execute"
    /\ IF next_task # None
       THEN LET power_watts ==
                    calculate_power_watts(heap[next_task].cpu_requirement)
                heap1 == [heap EXCEPT
                             ![next_task] = executed(@, current_time)]
            IN  /\ heap' = heap1
                /\ schedulers' =
                     [schedulers EXCEPT ![algorithm_name] =
                         execute_task(@, next_task, current_time, power_watts, heap)]
                /\ monitor' = record_reading(monitor,
                                 heap[next_task].cpu_requirement, 30, power_watts)
                /\ current_time' = current_time + heap[next_task].duration
                /\ remaining_tasks' = remove(remaining_tasks, next_task, heap1)
       ELSE /\ current_time' = current_time + 1
            /\ UNCHANGED <<heap, schedulers, monitor, remaining_tasks>>
    /\ pc' = "while"
    /\ UNCHANGED <<best, tasks, monitors, results, idx, algorithm_name, next_task,
                   returned, calls>>

\* the lines after the loop, and the caller's use of the returned metrics in
\* run_all_simulations
ReturnToRunAll ==
    /\ pc = "done"
    /\ idx > 0
    /\ monitors' = (algorithm_name :> monitor) @@ monitors
    /\ returned' = Append(returned, get_metrics(schedulers[algorithm_name]))
    /\ results' = (algorithm_name :> get_metrics(schedulers[algorithm_name])) @@ results
    /\ idx' = idx + 1
    /\ pc' = "for"
    /\ UNCHANGED <<best, heap, tasks, schedulers, runLocals, calls>>

\* self.results.items(): the names in the order the runs inserted them
items(res) == SelectSeq(ALGORITHMS, LAMBDA n : n \in DOMAIN res)

\* the ranking with the largest energy first
sorted_by_energy_descending(res) ==
    sorted(items(res), [n \in DOMAIN res |-> <<0 - res[n].total_energy_kwh>>])

sorted_by_energy(res) ==
    sorted(items(res), [n \in DOMAIN res |-> <<res[n].total_energy_kwh>>])

sorted_by_co2(res) ==
    sorted(items(res), [n \in DOMAIN res |-> <<res[n].co2_emissions_kg>>])

\* main.py step 4: compare_algorithms(); [0] of an empty ranking raises
compare_algorithms ==
    /\ pc = "ran"
    /\ IF items(results) = <<>>
       THEN /\ pc' = "IndexError"
            /\ UNCHANGED best
       ELSE /\ best' = <<sorted_by_energy(results)[1], sorted_by_co2(results)[1]>>
            /\ pc' = "compared"
    /\ UNCHANGED <<heap, tasks, schedulers, monitors, results, idx, runLocals,
                   returned, calls>>

Next ==
    \/ generate_random_tasks
    \/ run_all_simulations
    \/ RunNextAlgorithm
    \/ RunAllReturn
    \/ WhileTest
    \/ Select
    \/ Execute
    \/ ReturnToRunAll
    \/ compare_algorithms

Spec == Init /\ [][Next]_vars

----------------------------------------------------------------------------
(* A direct caller of the interface: run(policy_name, batch) on a batch it *)
(* supplies, and a policy's schedule() on a list it supplies.  The caller  *)
(* has constructed the Simulator and called initialize_schedulers().       *)

InitApi ==
    /\ \E b \in Batches :
         /\ heap = Objects(b)
         /\ tasks = Refs(Objects(b))
    /\ schedulers = initialize_schedulers
    /\ monitors = Empty
    /\ results = Empty
    /\ pc = "idle"
    /\ idx = 0
    /\ algorithm_name = "FCFS"
    /\ monitor = <<>>
    /\ remaining_tasks = <<>>
    /\ current_time = 0
    /\ next_task = None
    /\ returned = <<>>
    /\ calls = 0
    /\ best = <<>>

\* simulator.schedulers[name].schedule(tasks)
CallSchedule(name) ==
    /\ pc = "idle"
    /\ LET call == schedule(schedulers[name], tasks, heap)
       IN  /\ next_task' = call.ret
           /\ tasks' = call.list
    /\ algorithm_name' = name
    /\ pc' = "scheduled"
    /\ UNCHANGED <<best, heap, schedulers, monitors, results, idx, monitor,
                   remaining_tasks, current_time, returned, calls>>

ScheduleAny == \E name \in DOMAIN schedulers : CallSchedule(name)

NextSchedule == ScheduleAny

SpecSchedule == InitApi /\ [][NextSchedule]_vars

\* simulator.run_simulation_for_algorithm(name, copy of the batch): the copy's
\* Task objects are new objects with the fields of the batch's
CallRun(name) ==
    /\ pc = "idle"
    /\ calls < MaxCalls
    /\ name \in DOMAIN schedulers
    /\ heap' = heap \o [i \in 1..Len(tasks) |-> heap[tasks[i]]]
    /\ Enter(name, [i \in 1..Len(tasks) |-> Len(heap) + i])
    /\ calls' = calls + 1
    /\ UNCHANGED <<best, tasks, schedulers, monitors, results, idx, returned>>

RunAny == \E name \in Elems(ALGORITHMS) : CallRun(name)

\* the lines after the loop; the metrics go to the caller
ReturnToCaller ==
    /\ pc = "done"
    /\ idx = 0
    /\ monitors' = (algorithm_name :> monitor) @@ monitors
    /\ returned' = Append(returned, get_metrics(schedulers[algorithm_name]))
    /\ pc' = "idle"
    /\ UNCHANGED <<best, heap, tasks, schedulers, results, idx, runLocals, calls>>

NextApi ==
    \/ RunAny
    \/ WhileTest
    \/ Select
    \/ Execute
    \/ ReturnToCaller

SpecApi == InitApi /\ [][NextApi]_vars

\* One call of run_simulation_for_algorithm(name, batch), from its entry, on a
\* Simulator whose schedulers are new; the batch is submitted at once (every
\* arrival_time is 0, as in the scenarios of the specification).
InitRun ==
    /\ \E b \in Batches :
         /\ \A i \in 1..Len(b) : b[i][3] = 0
         /\ heap = Objects(b)
         /\ tasks = Refs(Objects(b))
         /\ remaining_tasks = Refs(Objects(b))
    /\ schedulers = initialize_schedulers
    /\ monitors = Empty
    /\ results = Empty
    /\ pc = "while"
    /\ idx = 0
    /\ algorithm_name \in Elems(ALGORITHMS)
    /\ monitor = <<>>
    /\ current_time = 0
    /\ next_task = None
    /\ returned = <<>>
    /\ calls = 1
    /\ best = <<>>

NextRun ==
    \/ WhileTest
    \/ Select
    \/ Execute
    \/ ReturnToCaller

SpecRun == InitRun /\ [][NextRun]_vars

\* the thread is the only one and is never suspended: the call runs on while
\* it has a step to take
FairRun == SpecRun /\ WF_vars(NextRun)

\* The batch of the ordering scenario: A (2 s, LOW, cpu 80), B (1 s, HIGH,
\* cpu 20), C (3 s, MEDIUM, cpu 50), all arriving at 0
ScenarioBatch ==
    << <<2 * TicksPerSecond, LOW, 0, 80>>,
       <<1 * TicksPerSecond, HIGH, 0, 20>>,
       <<3 * TicksPerSecond, MEDIUM, 0, 50>> >>

\* One call of run_simulation_for_algorithm(name, batch), from its entry, on a
\* Simulator whose schedulers are new, for any batch and the scenario's.
InitWhole ==
    /\ \E b \in Batches \cup {ScenarioBatch} :
         /\ heap = Objects(b)
         /\ tasks = Refs(Objects(b))
         /\ remaining_tasks = Refs(Objects(b))
    /\ schedulers = initialize_schedulers
    /\ monitors = Empty
    /\ results = Empty
    /\ pc = "while"
    /\ idx = 0
    /\ algorithm_name \in Elems(ALGORITHMS)
    /\ monitor = <<>>
    /\ current_time = 0
    /\ next_task = None
    /\ returned = <<>>
    /\ calls = 1
    /\ best = <<>>

SpecWhole == InitWhole /\ [][NextRun]_vars

\* A caller that runs FCFS and then RoundRobin, each on its own copy of the
\* same batch
CallFCFS == calls = 0 /\ CallRun("FCFS")

CallRoundRobin == calls = 1 /\ CallRun("RoundRobin")

NextTwin ==
    \/ CallFCFS
    \/ CallRoundRobin
    \/ WhileTest
    \/ Select
    \/ Execute
    \/ ReturnToCaller

SpecTwin == InitApi /\ [][NextTwin]_vars

----------------------------------------------------------------------------
(* TaskQueue, and calls with a policy name that may not be registered.     *)
(* The queue's list is the variable tasks.                                 *)

\* TaskQueue.get_next_task(algorithm)
get_next_task(queue, algorithm, h) ==
    IF queue = <<>> THEN None
    ELSE CASE algorithm = "FCFS" -> queue[1]
           [] algorithm = "SJF" ->
                min(queue, [r \in Elems(queue) |-> <<h[r].duration>>])
           [] algorithm = "PriorityBased" ->
                min(queue, [r \in Elems(queue) |->
                               <<h[r].priority, h[r].arrival_time>>])
           [] algorithm = "EnergyOptimized" ->
                min(queue, [r \in Elems(queue) |-> <<h[r].cpu_requirement>>])
           [] OTHER -> queue[1]

\* the names a caller may pass: the registered ones and one that is not
PolicyNames == Elems(ALGORITHMS) \cup {"Lottery"}

\* queue.get_next_task(name)
CallGetNextTask(name) ==
    /\ pc = "idle"
    /\ next_task' = get_next_task(tasks, name, heap)
    /\ algorithm_name' = name
    /\ pc' = "got"
    /\ UNCHANGED <<best, heap, tasks, schedulers, monitors, results, idx, monitor,
                   remaining_tasks, current_time, returned, calls>>

GetNextAny == \E name \in PolicyNames : CallGetNextTask(name)

\* simulator.run_simulation_for_algorithm(name, batch) with a name that is
\* not a key of self.schedulers: the lookup raises KeyError
CallRunUnregistered(name) ==
    /\ pc = "idle"
    /\ name \notin DOMAIN schedulers
    /\ algorithm_name' = name
    /\ pc' = "KeyError"
    /\ UNCHANGED <<best, heap, tasks, schedulers, monitors, results, idx, monitor,
                   remaining_tasks, current_time, next_task, returned, calls>>

RunUnregistered == \E name \in PolicyNames : CallRunUnregistered(name)

NextQueue ==
    \/ GetNextAny
    \/ RunUnregistered

SpecQueue == InitApi /\ [][NextQueue]_vars

----------------------------------------------------------------------------
(* A caller that constructs the Task objects of a batch itself, with any   *)
(* field values, and runs one policy on them.                              *)

TaskDurationsAny == {-1 * TicksPerSecond, 0, 1 * TicksPerSecond}

TaskArrivalsAny == {-1 * TicksPerSecond, 0}

TaskCpuAny == {-20, 50, 150}

BatchesAny ==
    UNION { [1..n -> TaskDurationsAny \X TaskPriority \X TaskArrivalsAny
                         \X TaskCpuAny] : n \in 0..MaxTasks }

\* Task(duration=..., priority=..., arrival_time=..., cpu_requirement=...) for
\* each task of the batch: the dataclass stores what it is given
ConstructBatch ==
    /\ pc = "idle"
    /\ calls = 0
    /\ \E b \in BatchesAny :
         /\ heap' = Objects(b)
         /\ tasks' = Refs(Objects(b))
    /\ pc' = "constructed"
    /\ UNCHANGED <<best, schedulers, monitors, results, idx, runLocals, returned, calls>>

\* simulator.run_simulation_for_algorithm(name, batch)
CallRunBatch(name) ==
    /\ pc = "constructed"
    /\ name \in DOMAIN schedulers
    /\ Enter(name, tasks)
    /\ calls' = calls + 1
    /\ UNCHANGED <<best, heap, tasks, schedulers, monitors, results, idx, returned>>

RunBatchAny == \E name \in Elems(ALGORITHMS) : CallRunBatch(name)

InitConstruct ==
    /\ heap = <<>>
    /\ tasks = <<>>
    /\ schedulers = initialize_schedulers
    /\ monitors = Empty
    /\ results = Empty
    /\ pc = "idle"
    /\ idx = 0
    /\ algorithm_name = "FCFS"
    /\ monitor = <<>>
    /\ remaining_tasks = <<>>
    /\ current_time = 0
    /\ next_task = None
    /\ returned = <<>>
    /\ calls = 0
    /\ best = <<>>

NextConstruct ==
    \/ ConstructBatch
    \/ RunBatchAny
    \/ WhileTest
    \/ Select
    \/ Execute
    \/ ReturnToCaller

SpecConstruct == InitConstruct /\ [][NextConstruct]_vars

----------------------------------------------------------------------------
(* run_all_simulations with config.ALGORITHMS in any order: up to MaxCalls *)
(* policies run one after the other over the same self.tasks.              *)

InitOrder ==
    /\ \E b \in Batches :
         /\ \A i \in 1..Len(b) : b[i][3] = 0
         /\ heap = Objects(b)
         /\ tasks = Refs(Objects(b))
    /\ schedulers = initialize_schedulers
    /\ monitors = Empty
    /\ results = Empty
    /\ pc = "for"
    /\ idx = 1
    /\ algorithm_name = "FCFS"
    /\ monitor = <<>>
    /\ remaining_tasks = <<>>
    /\ current_time = 0
    /\ next_task = None
    /\ returned = <<>>
    /\ calls = 0
    /\ best = <<>>

\* the next iteration of the for loop, for a policy that has not run yet
RunInAnyOrder(name) ==
    /\ pc = "for"
    /\ calls < MaxCalls
    /\ name \in DOMAIN schedulers
    /\ name \notin DOMAIN results
    /\ Enter(name, tasks)
    /\ calls' = calls + 1
    /\ UNCHANGED <<best, heap, tasks, schedulers, monitors, results, idx, returned>>

RunNextInAnyOrder == \E name \in Elems(ALGORITHMS) : RunInAnyOrder(name)

NextOrder ==
    \/ RunNextInAnyOrder
    \/ WhileTest
    \/ Select
    \/ Execute
    \/ ReturnToRunAll

SpecOrder == InitOrder /\ [][NextOrder]_vars

\* A batch of three tasks that FCFS and EnergyOptimized execute in different
\* orders: (1 s, cpu 20), (1 s, cpu 80), (3 s, cpu 50), all MEDIUM, arriving at 0
RoundingBatch ==
    << <<1 * TicksPerSecond, MEDIUM, 0, 20>>,
       <<1 * TicksPerSecond, MEDIUM, 0, 80>>,
       <<3 * TicksPerSecond, MEDIUM, 0, 50>> >>

\* the same for loop over the batches of InitOrder and over RoundingBatch
InitCompare ==
    /\ \E b \in Batches \cup {RoundingBatch} :
         /\ \A i \in 1..Len(b) : b[i][3] = 0
         /\ heap = Objects(b)
         /\ tasks = Refs(Objects(b))
    /\ schedulers = initialize_schedulers
    /\ monitors = Empty
    /\ results = Empty
    /\ pc = "for"
    /\ idx = 1
    /\ algorithm_name = "FCFS"
    /\ monitor = <<>>
    /\ remaining_tasks = <<>>
    /\ current_time = 0
    /\ next_task = None
    /\ returned = <<>>
    /\ calls = 0
    /\ best = <<>>

SpecCompare == InitCompare /\ [][NextOrder]_vars

\* run_simulation_for_algorithm as a function: the policy object after the
\* loop has run on list from time now over the objects h
RECURSIVE RunLoop(_, _, _, _)
RunLoop(s, list, now, h) ==
    IF ~WhileCond(list, now) THEN s
    ELSE LET call == schedule(s, list, h)
             r == call.ret
         IN  IF r = None THEN RunLoop(s, call.list, now + 1, h)
             ELSE LET power_watts == calculate_power_watts(h[r].cpu_requirement)
                      h1 == [h EXCEPT ![r] = executed(@, now)]
                  IN  RunLoop(execute_task(s, r, now, power_watts, h),
                              remove(call.list, r, h1), now + h[r].duration, h1)

\* the record of one run of the policy, alone, with a new policy object, on
\* objects that no run has touched
RunAlone(name, h) ==
    LET pristine == [r \in DOMAIN h |->
                        [h[r] EXCEPT !.start_time = None, !.end_time = None]]
    IN  get_metrics(RunLoop(initialize_schedulers[name], Refs(pristine), 0, pristine))

----------------------------------------------------------------------------
(* Properties                                                              *)

InRun == pc \in {"while", "select", "execute", "done"}

Budget == SIMULATION_TIME * TicksPerSecond

\* C1: every task whose start_time is set has start_time >= arrival_time.
C1_StartNotBeforeArrival ==
    \A r \in DOMAIN heap :
        heap[r].start_time # None => heap[r].start_time >= heap[r].arrival_time

\* C2: once a task's start_time and end_time are set, no later step of any
\* policy's run changes them.
C2_WriteOnce ==
    [][\A r \in DOMAIN heap :
          heap[r].start_time # None =>
              (heap'[r].start_time = heap[r].start_time
                 /\ heap'[r].end_time = heap[r].end_time)]_vars

\* C3: at every step of a run, the policy's executed tasks and the ready list
\* are disjoint, hold no task twice, and together are the batch, so
\* tasks_executed + size of the ready list = batch size.
C3_ExecutedAndReadyPartition ==
    InRun =>
        LET ex == schedulers[algorithm_name].executed_tasks
        IN  /\ Elems(ex) \cap Elems(remaining_tasks) = {}
            /\ Elems(ex) \cup Elems(remaining_tasks) = Elems(tasks)
            /\ Cardinality(Elems(ex)) = Len(ex)
            /\ Cardinality(Elems(remaining_tasks)) = Len(remaining_tasks)
            /\ get_metrics(schedulers[algorithm_name]).tasks_executed
                 + Len(remaining_tasks) = Len(tasks)

C3_Witness ==
    /\ pc = "while"
    /\ schedulers[algorithm_name].executed_tasks # <<>>
    /\ remaining_tasks # <<>>
    /\ schedulers[algorithm_name].executed_tasks[1] # tasks[1]

\* C4: start_time and end_time of a task are both unset or both set, and when
\* set end_time = start_time + duration.
C4_EndIsStartPlusDuration ==
    \A r \in DOMAIN heap :
        /\ (heap[r].start_time = None) <=> (heap[r].end_time = None)
        /\ heap[r].start_time # None =>
               heap[r].end_time = heap[r].start_time + heap[r].duration

C4_Witness ==
    \E r \in DOMAIN heap : heap[r].start_time # None /\ heap[r].start_time > 0

\* C5: the loop of every run reaches DONE, and at DONE the ready list is empty
\* or the time cursor is at or past the budget.
C5_RunTerminates ==
    /\ (pc = "while") ~> (pc = "done")
    /\ [](pc = "done" => (remaining_tasks = <<>> \/ current_time >= Budget))

C5_Witness ==
    pc = "done" /\ remaining_tasks # <<>> /\ current_time >= Budget

\* C6: two calls of run_simulation_for_algorithm for the same policy over
\* two copies of the batch return equal MetricsRecords.
C6_SameMetricsTwice ==
    \A i \in DOMAIN returned : \A j \in DOMAIN returned :
        returned[i].algorithm = returned[j].algorithm => returned[i] = returned[j]

\* C7: schedule returns none iff the list is empty, and otherwise returns a
\* member of the list, for each of the five policies.
C7_NoneIffEmpty ==
    pc = "scheduled" =>
        /\ (next_task = None) <=> (tasks = <<>>)
        /\ tasks # <<>> => next_task \in Elems(tasks)

C7_Witness ==
    pc = "scheduled" /\ Len(tasks) = 2 /\ next_task = tasks[2]

\* C8: the selection step of a run leaves the ready list (members and order),
\* every task's fields and every policy's accumulated metrics unchanged; within
\* the loop only the execute step changes them.
C8_SelectionHasNoSideEffects ==
    [][(pc = "while" \/ pc = "select") =>
          (remaining_tasks' = remaining_tasks /\ heap' = heap
             /\ schedulers' = schedulers)]_vars

C8_Witness ==
    /\ pc = "execute"
    /\ algorithm_name = "EnergyOptimized"
    /\ next_task # None
    /\ next_task # remaining_tasks[1]

SJFBefore(a, b) ==
    \/ a.duration < b.duration
    \/ a.duration = b.duration /\ a.arrival_time < b.arrival_time

\* C9: SJF returns the task of minimum duration, among those the one of
\* earliest arrival_time, among those the first in the list.
C9_SJFTieBreaks ==
    (pc = "scheduled" /\ algorithm_name = "SJF" /\ tasks # <<>>) =>
        \E i \in 1..Len(tasks) :
            /\ tasks[i] = next_task
            /\ \A j \in 1..Len(tasks) : ~SJFBefore(heap[tasks[j]], heap[tasks[i]])
            /\ \A j \in 1..(i - 1) : SJFBefore(heap[tasks[i]], heap[tasks[j]])

GreenBefore(a, b) ==
    \/ a.cpu_requirement < b.cpu_requirement
    \/ /\ a.cpu_requirement = b.cpu_requirement
       /\ \/ a.priority < b.priority
          \/ a.priority = b.priority /\ a.arrival_time < b.arrival_time

\* C10: EnergyOptimized returns the task minimal under (cpu_requirement,
\* priority rank, arrival_time), among equals the first in the list.
C10_EnergyOptimizedKey ==
    (pc = "scheduled" /\ algorithm_name = "EnergyOptimized" /\ tasks # <<>>) =>
        \E i \in 1..Len(tasks) :
            /\ tasks[i] = next_task
            /\ \A j \in 1..Len(tasks) : ~GreenBefore(heap[tasks[j]], heap[tasks[i]])
            /\ \A j \in 1..(i - 1) : GreenBefore(heap[tasks[i]], heap[tasks[j]])

C10_Witness ==
    /\ pc = "scheduled"
    /\ algorithm_name = "EnergyOptimized"
    /\ Len(tasks) >= 2
    /\ next_task = tasks[2]
    /\ heap[tasks[1]].cpu_requirement = heap[tasks[2]].cpu_requirement

PriorityBefore(a, b) ==
    \/ a.priority < b.priority
    \/ a.priority = b.priority /\ a.arrival_time < b.arrival_time

\* C11: Priority returns the task minimal under (priority rank, arrival_time)
\* with HIGH = 1 < MEDIUM = 2 < LOW = 3, among equals the first in the list.
C11_PriorityKey ==
    /\ HIGH = 1 /\ MEDIUM = 2 /\ LOW = 3
    /\ (pc = "scheduled" /\ algorithm_name = "PriorityBased" /\ tasks # <<>>) =>
           \E i \in 1..Len(tasks) :
               /\ tasks[i] = next_task
               /\ \A j \in 1..Len(tasks) :
                      ~PriorityBefore(heap[tasks[j]], heap[tasks[i]])
               /\ \A j \in 1..(i - 1) :
                      PriorityBefore(heap[tasks[i]], heap[tasks[j]])

C11_Witness ==
    /\ pc = "scheduled"
    /\ algorithm_name = "PriorityBased"
    /\ Len(tasks) >= 2
    /\ next_task = tasks[2]
    /\ heap[tasks[1]].priority = heap[tasks[2]].priority

IsScenario ==
    /\ Len(heap) = Len(ScenarioBatch)
    /\ \A i \in 1..Len(heap) :
           <<heap[i].duration, heap[i].priority, heap[i].arrival_time,
             heap[i].cpu_requirement>> = ScenarioBatch[i]

\* the executed tasks are in non-decreasing order of the field, and no task
\* still waiting has a smaller value than an executed one
OrderedBy(field) ==
    LET ex == schedulers[algorithm_name].executed_tasks
    IN  /\ \A i, j \in 1..Len(ex) :
               i < j => field[ex[i]] <= field[ex[j]]
        /\ pc \in {"while", "select", "done"} =>
               \A i \in 1..Len(ex), j \in 1..Len(remaining_tasks) :
                   field[ex[i]] <= field[remaining_tasks[j]]

\* C12: over a whole run the execution order is sorted by the policy's key:
\* durations under SJF, priority ranks under Priority (no MEDIUM or LOW task
\* before a HIGH one), cpu_requirement under EnergyOptimized; for the batch
\* A (2 s, LOW, 80), B (1 s, HIGH, 20), C (3 s, MEDIUM, 50) SJF executes
\* B, A, C and Priority and EnergyOptimized execute B, C, A.
C12_ExecutionOrderSorted ==
    LET ex == schedulers[algorithm_name].executed_tasks
    IN  /\ algorithm_name = "SJF" =>
               OrderedBy([r \in DOMAIN heap |-> heap[r].duration])
        /\ algorithm_name = "PriorityBased" =>
               OrderedBy([r \in DOMAIN heap |-> heap[r].priority])
        /\ algorithm_name = "EnergyOptimized" =>
               OrderedBy([r \in DOMAIN heap |-> heap[r].cpu_requirement])
        /\ (IsScenario /\ pc \in {"done", "idle"}) =>
               /\ algorithm_name = "SJF" => ex = <<2, 1, 3>>
               /\ algorithm_name = "PriorityBased" => ex = <<2, 3, 1>>
               /\ algorithm_name = "EnergyOptimized" => ex = <<2, 3, 1>>

C12_Witness ==
    /\ IsScenario
    /\ pc = "idle"
    /\ algorithm_name = "SJF"
    /\ Len(returned) = 1
    /\ returned[1].tasks_executed = 3

C14_UnknownPolicyFails ==
    (pc \in {"got", "KeyError"} /\ algorithm_name \notin Elems(ALGORITHMS)) =>
        (pc = "KeyError" /\ next_task = None)

ValidTask(t) ==
    /\ t.duration > 0
    /\ t.cpu_requirement >= 0 /\ t.cpu_requirement <= 100
    /\ t.arrival_time >= 0

\* C15: a task with a non-positive duration, a cpu_requirement outside
\* 0..100 or a negative arrival_time is rejected when it is constructed: no
\* such task is in a ready set, is selected, or is among the executed tasks
\* behind a metrics record.
C15_InvalidTaskRejected ==
    /\ \A i \in 1..Len(remaining_tasks) : ValidTask(heap[remaining_tasks[i]])
    /\ next_task # None => ValidTask(heap[next_task])
    /\ \A name \in DOMAIN schedulers :
           \A i \in 1..Len(schedulers[name].executed_tasks) :
               ValidTask(heap[schedulers[name].executed_tasks[i]])

ZeroRecord(m) ==
    /\ m.tasks_executed = 0
    /\ m.total_energy_kwh = 0
    /\ m.co2_emissions_kg = 0
    /\ m.avg_wait_time = [num |-> 0, den |-> 1]
    /\ m.avg_turnaround_time = [num |-> 0, den |-> 1]

\* C16: a run over an empty batch, and any run that executes no task,
\* completes without error with tasks_executed = 0, total_energy_kwh = 0,
\* co2_emissions_kg = 0 and both averages 0; no average is ever computed by
\* dividing by zero.
C16_EmptyRunIsZero ==
    /\ \A name \in DOMAIN results :
           /\ results[name].avg_wait_time.den > 0
           /\ results[name].avg_turnaround_time.den > 0
           /\ results[name].tasks_executed = 0 => ZeroRecord(results[name])
           /\ tasks = <<>> => ZeroRecord(results[name])
    /\ (tasks = <<>> /\ InRun) => pc \in {"while", "done"}
    /\ (tasks = <<>> /\ pc = "ran") =>
           \A i \in 1..Len(ALGORITHMS) : ALGORITHMS[i] \in DOMAIN results

C16_Witness ==
    /\ pc = "ran"
    /\ tasks = <<>>
    /\ DOMAIN results = Elems(ALGORITHMS)
    /\ Len(returned) = Len(ALGORITHMS)
    /\ \A i \in 1..Len(returned) : returned[i].tasks_executed = 0

RECURSIVE SumOver(_, _)
SumOver(f, list) ==
    IF list = <<>> THEN 0 ELSE f[Head(list)] + SumOver(f, Tail(list))

\* the float sum of f over the list, added up from its first element on
RECURSIVE FloatSum(_, _)
FloatSum(f, list) ==
    IF list = <<>> THEN 0
    ELSE float(FloatSum(f, SubSeq(list, 1, Len(list) - 1)) + f[list[Len(list)]])

\* (base + (max - base) * cpu / 100) * duration of every task, in
\* hundredths of a watt times tenths of a second, as a float
TaskEnergy ==
    [r \in DOMAIN heap |->
        float((100 * BASE_POWER_WATTS
                 + (MAX_POWER_WATTS - BASE_POWER_WATTS) * heap[r].cpu_requirement)
              * heap[r].duration)]

\* C17: at every step of a run the policy's total_energy is the sum over its
\* executed tasks of (base + (max - base) * cpu / 100) * duration / 3 600 000,
\* and the record's co2_emissions_kg is total_energy_kwh times the emission
\* factor; one task of duration 1 and cpu 50 with base 5 and max 15
\* contributes 10 * 1 / 3 600 000 kWh.  (total_energy counts thousandths of a
\* joule, the emissions hundredths of that; both share the division by
\* 3 600 000; the sum is the float sum in the order of execution.)
C17_EnergyIsSumOverExecuted ==
    /\ \A name \in DOMAIN schedulers :
           LET s == schedulers[name]
           IN  /\ s.total_energy = FloatSum(TaskEnergy, s.executed_tasks)
               /\ get_metrics(s).total_energy_kwh = s.total_energy
               /\ get_metrics(s).co2_emissions_kg = float(s.total_energy * 73)
               /\ ( /\ Len(s.executed_tasks) = 1
                    /\ heap[s.executed_tasks[1]].duration = 1 * TicksPerSecond
                    /\ heap[s.executed_tasks[1]].cpu_requirement = 50 ) =>
                      s.total_energy = 10 * 1 * 100 * TicksPerSecond
    /\ \A name \in DOMAIN results :
           results[name].co2_emissions_kg =
               float(results[name].total_energy_kwh * 73)

C17_Witness ==
    /\ pc = "while"
    /\ algorithm_name = "SJF"
    /\ Len(schedulers["SJF"].executed_tasks) = 1
    /\ heap[schedulers["SJF"].executed_tasks[1]].duration = 1 * TicksPerSecond
    /\ heap[schedulers["SJF"].executed_tasks[1]].cpu_requirement = 50
    /\ remaining_tasks # <<>>

\* C18: in every state of run_all_simulations and for every policy,
\* total_wait_time is the sum of start_time - arrival_time and
\* total_turnaround_time the sum of end_time - arrival_time over the tasks
\* held in that policy's executed_tasks.
C18_TotalsAreSumsOverExecuted ==
    \A name \in DOMAIN schedulers :
        LET s == schedulers[name]
        IN  /\ s.total_wait_time =
                   SumOver([r \in DOMAIN heap |->
                               heap[r].start_time - heap[r].arrival_time],
                           s.executed_tasks)
            /\ s.total_turnaround_time =
                   SumOver([r \in DOMAIN heap |->
                               heap[r].end_time - heap[r].arrival_time],
                           s.executed_tasks)

\* C19: after all runs compare_algorithms returns a best-by-energy policy
\* whose total_energy_kwh is at most every other policy's and a best-by-CO2
\* policy whose co2_emissions_kg is at most every other policy's; it is
\* invoked on a result set that is not empty.
C19_BestIsMinimal ==
    /\ pc = "ran" => DOMAIN results # {}
    /\ pc = "compared" =>
           /\ DOMAIN results = Elems(ALGORITHMS)
           /\ Len(best) = 2
           /\ best[1] \in DOMAIN results
           /\ best[2] \in DOMAIN results
           /\ \A n \in DOMAIN results :
                  /\ results[best[1]].total_energy_kwh <= results[n].total_energy_kwh
                  /\ results[best[2]].co2_emissions_kg <= results[n].co2_emissions_kg

C19_Witness ==
    /\ pc = "compared"
    /\ best[1] # "FCFS"
    /\ results[best[1]].total_energy_kwh < results["FCFS"].total_energy_kwh
    /\ results[best[1]].tasks_executed > 0

\* C20: the record a policy obtains inside run_all_simulations is the same
\* whatever policies ran before it over the same batch and in whatever
\* order: it is the record of that policy run alone on a pristine copy of
\* the batch.
C20_RunsAreIndependent ==
    pc = "for" =>
        \A name \in DOMAIN results : results[name] = RunAlone(name, heap)

C20_Witness ==
    /\ pc = "for"
    /\ Len(returned) = 2
    /\ returned[1].tasks_executed = 1
    /\ returned[2].tasks_executed = 2
    /\ returned[2].avg_wait_time.num > 0
    /\ results[returned[2].algorithm] = returned[2]

\* C21: for every non-empty ready set and every registered policy name,
\* TaskQueue.get_next_task(name) returns the task that policy's schedule()
\* returns on the same list, also when tasks tie on cpu_requirement.
C21_QueueAgreesWithPolicies ==
    (pc = "got" /\ algorithm_name \in Elems(ALGORITHMS) /\ tasks # <<>>) =>
        next_task = schedule(schedulers[algorithm_name], tasks, heap).ret

\* C22: total energy does not depend on the execution order: two policy runs
\* over the same batch that both execute every task of the batch report
\* equal total_energy_kwh and equal co2_emissions_kg.
C22_EnergyIndependentOfOrder ==
    pc = "for" =>
        \A n, m \in DOMAIN results :
            ( /\ results[n].tasks_executed = Len(tasks)
              /\ results[m].tasks_executed = Len(tasks) ) =>
                /\ results[n].total_energy_kwh = results[m].total_energy_kwh
                /\ results[n].co2_emissions_kg = results[m].co2_emissions_kg

\* C23: in every run the time cursor is the sum of the durations of the tasks
\* executed so far: the first task starts at 0, each later task starts at
\* the end_time of the one before, every iteration executes one task, and the
\* branch that idles for 0.1 s is never taken.
C23_CursorIsSumOfDurations ==
    InRun =>
        LET ex == schedulers[algorithm_name].executed_tasks
        IN  /\ current_time =
                   SumOver([r \in DOMAIN heap |-> heap[r].duration], ex)
            /\ ex # <<>> => heap[ex[1]].start_time = 0
            /\ \A i \in 2..Len(ex) :
                   heap[ex[i]].start_time = heap[ex[i - 1]].end_time
            /\ pc = "execute" =>
                   /\ next_task # None
                   /\ \E i \in 1..Len(remaining_tasks) : remaining_tasks[i] = next_task
            /\ Len(ex) + Len(remaining_tasks) = Len(tasks)

C23_Witness ==
    /\ pc = "while"
    /\ Len(schedulers[algorithm_name].executed_tasks) = 2
    /\ current_time = heap[1].duration + heap[2].duration
    /\ heap[schedulers[algorithm_name].executed_tasks[2]].start_time > 0
    /\ algorithm_name = "EnergyOptimized"

\* C24: no task is started once the time budget is reached: every task
\* executed in a run has start_time < SIMULATION_TIME (the budget bounds the
\* start times, not the end times), and every task left in the ready list
\* when the run is done was never selected in that run.
C24_NoStartAfterBudget ==
    /\ \A name \in DOMAIN schedulers :
           \A i \in 1..Len(schedulers[name].executed_tasks) :
               LET t == heap[schedulers[name].executed_tasks[i]]
               IN  /\ t.start_time # None
                   /\ t.start_time >= 0
                   /\ t.start_time < SIMULATION_TIME * TicksPerSecond
    /\ pc = "execute" => current_time < SIMULATION_TIME * TicksPerSecond
    /\ pc = "done" =>
           /\ remaining_tasks # <<>> =>
                  current_time >= SIMULATION_TIME * TicksPerSecond
           /\ \A i \in 1..Len(remaining_tasks) :
                  \A j \in 1..Len(schedulers[algorithm_name].executed_tasks) :
                      schedulers[algorithm_name].executed_tasks[j] # remaining_tasks[i]

C24_Witness ==
    /\ pc = "done"
    /\ remaining_tasks # <<>>
    /\ \E j \in 1..Len(schedulers[algorithm_name].executed_tasks) :
           LET t == heap[schedulers[algorithm_name].executed_tasks[j]]
           IN  /\ t.start_time < SIMULATION_TIME * TicksPerSecond
               /\ t.end_time >= SIMULATION_TIME * TicksPerSecond

====
